---- MODULE Spec2Model ----
(***************************************************************************)
(* Septentrio exporter: the per-station supervision loop (monitorStation), *)
(* the SBF frame scanner (handleStream) and the block decoder (parseBlock) *)
(* of src/main.go, as a state machine.                                     *)
(*                                                                         *)
(* A connection is the finite sequence of bytes its peer delivers before   *)
(* the read side reports an error (EOF, reset, ...): every read that finds *)
(* too few bytes left takes the code's `err != nil` branch.                *)
(***************************************************************************)
EXTENDS Integers, Sequences, FiniteSets, TLC

(* ------------------------------------------------------------------ *)
(* Program constants (src/main.go)                                    *)
(* ------------------------------------------------------------------ *)
SyncChar1 == 36
SyncChar2 == 64

BlockID_PVTGeodetic == 4007
BlockID_ReceiverStatus == 4014
BlockID_MeasEpoch == 4027
BlockID_DiskStatus == 4059
BlockID_QualityInd == 4082
BlockID_RFStatus == 4092

\* len(headerBuf), and the 8 subtracted from length to get payloadLen
HeaderLen == 8
\* the upper limit of `length > 8192`
MaxFrameLen == 8192
\* idRaw & 0x1FFF
IDMask == 8191
\* time.Sleep(10 * time.Second) after a failed dial
RetryDelay == 10
\* time.Sleep(5 * time.Second) after a lost connection
ReconnectDelay == 5

(* ------------------------------------------------------------------ *)
(* Bounds of the model                                                *)
(* ------------------------------------------------------------------ *)
\* a connection's byte stream is made of at most this many segments
MaxSegs == 2
\* the failure observer follows the first MaxFails dial attempts
MaxFails == 3
\* decoder inputs have every payload length from 0 to MaxPayload
MaxPayload == 21

(* ------------------------------------------------------------------ *)
(* Bytes and little-endian integers                                   *)
(* ------------------------------------------------------------------ *)
\* binary.LittleEndian.Uint16(b[0:2])
LittleEndianUint16(b0, b1) == b0 + 256 * b1

\* the two bytes PutUint16 would write (used to build input streams)
LE16Bytes(n) == <<n % 256, (n \div 256) % 256>>

Min(a, b) == IF a < b THEN a ELSE b

(* ------------------------------------------------------------------ *)
(* Sample values forwarded to the gauges.  A float64 value is kept     *)
(* exactly, as a record: plain small integers, unsigned 32-bit values  *)
(* as two 16-bit halves, and the disk value as a 32-bit count of MiB.  *)
(* ------------------------------------------------------------------ *)
Unset == [kind |-> "unset", hi |-> 0, lo |-> 0]
Num(n) == [kind |-> "int", hi |-> 0, lo |-> n]
U32(hi, lo) == [kind |-> "u32", hi |-> hi, lo |-> lo]
MiB(hi, lo) == [kind |-> "MiB", hi |-> hi, lo |-> lo]

Metrics ==
    {"satellitesTracked", "satellitesUsed", "jammingStatus", "receiverConnected",
     "cpuLoad", "temperature", "uptime", "diskFree",
     "qualityOverall", "qualitySignal", "qualityRF"}

\* one GaugeVec.WithLabelValues(station).Set(v) call
SetCall(m, v) == [metric |-> m, value |-> v]

(* ------------------------------------------------------------------ *)
(* parseBlock: the gauge Set calls one block makes, in program order.  *)
(* payload is 1-indexed here; At(payload, i) is Go's payload[i].       *)
(* ------------------------------------------------------------------ *)
At(payload, i) == payload[i + 1]

\* binary.LittleEndian.Uint32(payload[i:i+4]) as (high half, low half)
LittleEndianUint32(payload, i) ==
    U32(LittleEndianUint16(At(payload, i + 2), At(payload, i + 3)),
        LittleEndianUint16(At(payload, i), At(payload, i + 1)))

\* uint32 subtraction a - b, wrapping modulo 2^32
SubUint32(a, b) ==
    LET borrow == IF a.lo < b.lo THEN 1 ELSE 0
    IN  U32((a.hi - b.hi - borrow + 65536) % 65536, (a.lo - b.lo + 65536) % 65536)

\* the byte taken as unsigned
Int8_Unsigned(b) == b

\* int8(b)
Int8(b) == IF b >= 128 THEN b - 256 ELSE b

\* the two flag tests in the other order: bit 0 overrides bit 1
JammingState_Swapped(flags) ==
    LET s2 == IF (flags \div 2) % 2 # 0 THEN 2 ELSE 0
    IN  IF flags % 2 # 0 THEN 1 ELSE s2

\* the jamming state of case BlockID_RFStatus
JammingState(flags) ==
    LET s1 == IF flags % 2 # 0 THEN 1 ELSE 0
    IN  IF (flags \div 2) % 2 # 0 THEN 2 ELSE s1

\* the payload offsets parseBlock reads from a payload of n bytes with an
\* over-tight ReceiverStatus guard (n >= 15)
ReadOffsets_Guard15(id, n) ==
    CASE id = BlockID_PVTGeodetic -> IF n > 66 THEN {66} ELSE {}
      [] id = BlockID_MeasEpoch -> IF n > 6 THEN {6} ELSE {}
      [] id = BlockID_RFStatus -> IF n > 8 THEN {8} ELSE {}
      [] id = BlockID_ReceiverStatus -> IF n >= 15 THEN {6} \cup (7..10) \cup {15} ELSE {}
      [] id = BlockID_QualityInd -> IF n >= 9 THEN {6, 7, 8} ELSE {}
      [] id = BlockID_DiskStatus -> IF n >= 20 THEN (9..12) \cup (13..16) ELSE {}
      [] OTHER -> {}

\* the payload offsets parseBlock reads from a payload of n bytes:
\* payload[66]; payload[6]; payload[8]; payload[6], payload[7:11],
\* payload[15]; payload[6], [7], [8]; payload[9:13], payload[13:17]
ReadOffsets(id, n) ==
    CASE id = BlockID_PVTGeodetic -> IF n > 66 THEN {66} ELSE {}
      [] id = BlockID_MeasEpoch -> IF n > 6 THEN {6} ELSE {}
      [] id = BlockID_RFStatus -> IF n > 8 THEN {8} ELSE {}
      [] id = BlockID_ReceiverStatus -> IF n >= 16 THEN {6} \cup (7..10) \cup {15} ELSE {}
      [] id = BlockID_QualityInd -> IF n >= 9 THEN {6, 7, 8} ELSE {}
      [] id = BlockID_DiskStatus -> IF n >= 20 THEN (9..12) \cup (13..16) ELSE {}
      [] OTHER -> {}

\* a decoder that guards each field by the bytes that field reads
parseBlock_PerField(id, payload) ==
    LET n == Len(payload)
        one(ok, m, v) == IF ok THEN <<SetCall(m, v)>> ELSE <<>>
    IN  CASE id = BlockID_PVTGeodetic ->
               one(n > 66, "satellitesUsed", Num(payload[Min(n, 67)]))
          [] id = BlockID_MeasEpoch ->
               one(n > 6, "satellitesTracked", Num(payload[Min(n, 7)]))
          [] id = BlockID_RFStatus ->
               one(n > 8, "jammingStatus", Num(JammingState(payload[Min(n, 9)])))
          [] id = BlockID_ReceiverStatus ->
               one(n > 6, "cpuLoad", Num(payload[Min(n, 7)]))
                 \o one(n > 10, "uptime",
                        IF n > 10 THEN LittleEndianUint32(payload, 7) ELSE Unset)
                 \o one(n > 15, "temperature", Num(Int8(payload[Min(n, 16)])))
          [] id = BlockID_QualityInd ->
               one(n > 6, "qualityOverall", Num(payload[Min(n, 7)]))
                 \o one(n > 7, "qualitySignal", Num(payload[Min(n, 8)]))
                 \o one(n > 8, "qualityRF", Num(payload[Min(n, 9)]))
          [] id = BlockID_DiskStatus ->
               one(n > 16, "diskFree",
                   IF n > 16
                   THEN LET f == SubUint32(LittleEndianUint32(payload, 9),
                                           LittleEndianUint32(payload, 13))
                        IN  MiB(f.hi, f.lo)
                   ELSE Unset)
          [] OTHER -> <<>>

\* a decoder without the switch: every block is read as a MeasEpoch block
parseBlock_AnyIsEpoch(id, payload) ==
    IF Len(payload) > 6
    THEN <<SetCall("satellitesTracked", Num(At(payload, 6)))>>
    ELSE <<>>

parseBlock(id, payload) ==
    CASE id = BlockID_PVTGeodetic ->
           IF Len(payload) > 66
           THEN <<SetCall("satellitesUsed", Num(At(payload, 66)))>>
           ELSE <<>>
      [] id = BlockID_MeasEpoch ->
           IF Len(payload) > 6
           THEN <<SetCall("satellitesTracked", Num(At(payload, 6)))>>
           ELSE <<>>
      [] id = BlockID_RFStatus ->
           IF Len(payload) > 8
           THEN <<SetCall("jammingStatus", Num(JammingState(At(payload, 8))))>>
           ELSE <<>>
      [] id = BlockID_ReceiverStatus ->
           IF Len(payload) >= 16
           THEN <<SetCall("cpuLoad", Num(At(payload, 6))),
                  SetCall("uptime", LittleEndianUint32(payload, 7)),
                  SetCall("temperature", Num(Int8(At(payload, 15))))>>
           ELSE <<>>
      [] id = BlockID_QualityInd ->
           IF Len(payload) >= 9
           THEN <<SetCall("qualityOverall", Num(At(payload, 6))),
                  SetCall("qualitySignal", Num(At(payload, 7))),
                  SetCall("qualityRF", Num(At(payload, 8)))>>
           ELSE <<>>
      [] id = BlockID_DiskStatus ->
           IF Len(payload) >= 20
           THEN LET capacityMB == LittleEndianUint32(payload, 9)
                    usedMB == LittleEndianUint32(payload, 13)
                    freeMB == SubUint32(capacityMB, usedMB)
                IN  <<SetCall("diskFree", MiB(freeMB.hi, freeMB.lo))>>
           ELSE <<>>
      [] OTHER -> <<>>

\* the gauges of one station after a sequence of Set calls (last write wins)
RECURSIVE ApplySets(_, _)
ApplySets(gauges, calls) ==
    IF calls = <<>> THEN gauges
    ELSE ApplySets([gauges EXCEPT ![Head(calls).metric] = Head(calls).value],
                   Tail(calls))

(* ------------------------------------------------------------------ *)
(* Input byte streams                                                 *)
(* ------------------------------------------------------------------ *)
\* an SBF block on the wire: sync, CRC, ID, length, payload
Frame(crc, id, len, payload) ==
    <<SyncChar1, SyncChar2>> \o LE16Bytes(crc) \o LE16Bytes(id)
        \o LE16Bytes(len) \o payload

\* n payload bytes: a sync pair first, value v at offset 6, zero elsewhere
Fill(n, v) ==
    [i \in 1..n |-> IF i = 1 THEN SyncChar1
                    ELSE IF i = 2 THEN SyncChar2
                    ELSE IF i = 7 THEN v ELSE 0]

\* a MeasEpoch block announcing 5 satellites, and the same block with
\* another CRC and with revision bits in the top 3 bits of the ID
FrameA == Frame(0, BlockID_MeasEpoch, 15, Fill(7, 5))
FrameA_Rev == Frame(48879, BlockID_MeasEpoch + 3 * (IDMask + 1), 15, Fill(7, 5))
\* a MeasEpoch block announcing 9 satellites
FrameB == Frame(0, BlockID_MeasEpoch, 15, Fill(7, 9))
\* a block of an unknown type with an empty payload (length = 8)
FrameEmpty == Frame(0, 1, HeaderLen, <<>>)

Segments ==
    { <<0>>, <<SyncChar1>>, <<SyncChar2>>,
      \* noise holding both sync bytes, never adjacent in wire order
      <<SyncChar1, 0, SyncChar2, SyncChar1>>,
      FrameA, FrameA_Rev, FrameB, FrameEmpty,
      \* headers with a length below and above the valid range
      Frame(0, BlockID_MeasEpoch, HeaderLen - 1, <<>>),
      Frame(0, BlockID_MeasEpoch, MaxFrameLen + 1, <<>>),
      \* a header cut after 3 of its 6 remaining bytes
      SubSeq(FrameA, 1, 5),
      \* a block cut after 3 of its 7 payload bytes
      SubSeq(FrameA, 1, 11) }

RECURSIVE Flatten(_)
Flatten(ss) == IF ss = <<>> THEN <<>> ELSE Head(ss) \o Flatten(Tail(ss))

SmallStreams ==
    { Flatten(ss) : ss \in UNION { [1..k -> Segments] : k \in 0..MaxSegs } }

\* the longest valid block (length = 8192), alone, cut short, and followed
\* by another block
FrameMax == Frame(0, BlockID_MeasEpoch, MaxFrameLen, Fill(MaxFrameLen - HeaderLen, 5))
BigStreams ==
    { FrameMax, SubSeq(FrameMax, 1, MaxFrameLen - 1), FrameMax \o FrameB,
      FrameMax \o FrameEmpty }

Streams == SmallStreams \cup BigStreams

(* ------------------------------------------------------------------ *)
(* Decoder inputs: one block of each kind below, followed by FrameB    *)
(* ------------------------------------------------------------------ *)
KnownIDs ==
    {BlockID_PVTGeodetic, BlockID_ReceiverStatus, BlockID_MeasEpoch,
     BlockID_DiskStatus, BlockID_QualityInd, BlockID_RFStatus}

\* n payload bytes with varied values, high bit included
Ramp(n) == [i \in 1..n |-> (i * 37 + 11) % 256]

\* the bytes of seq b written at payload offset `at` of an all-zero payload
Place(n, at, b) ==
    [i \in 1..n |-> IF i > at /\ i <= at + Len(b) THEN b[i - at] ELSE 0]

\* little-endian 32-bit values: 0, 400, 1000, 65536, 100000, 2^32 - 1
Words ==
    {<<0, 0, 0, 0>>, <<144, 1, 0, 0>>, <<232, 3, 0, 0>>, <<0, 0, 1, 0>>,
     <<160, 134, 1, 0>>, <<255, 255, 255, 255>>}

\* every known and two unknown IDs with every payload length of interest
LengthBlocks ==
    { Frame(0, id, HeaderLen + n, Ramp(n)) :
        id \in KnownIDs \cup {1, 4008},
        n \in (0..MaxPayload) \cup {66, 67, MaxFrameLen - HeaderLen} }

\* ReceiverStatus blocks: CPU at 6, uptime at 7..10, temperature at 15
StatusBlocks ==
    { Frame(0, BlockID_ReceiverStatus, HeaderLen + 16,
            Place(16, 6, <<cpu>> \o up \o <<0, 0, 0, 0, temp>>)) :
        cpu \in {0, 42, 255}, up \in Words, temp \in {0, 127, 128, 251, 255} }

\* RFStatus blocks with every flags byte at offset 8
FlagBlocks ==
    { Frame(0, BlockID_RFStatus, HeaderLen + 9, Place(9, 8, <<flags>>)) :
        flags \in 0..255 }

\* DiskStatus blocks: capacity at 9..12, used at 13..16
DiskBlocks ==
    { Frame(0, BlockID_DiskStatus, HeaderLen + 20, Place(20, 9, cap \o used)) :
        cap \in Words, used \in Words }

\* the streams of the peers when several stations are supervised: an
\* immediate end of stream, one block, two blocks, and a block lost to a
\* stray first marker byte
FewStreams == {<<>>, FrameA, FrameB \o FrameA, <<SyncChar1>> \o FrameA}

TestBlocks == LengthBlocks \cup StatusBlocks \cup FlagBlocks \cup DiskBlocks

(* ------------------------------------------------------------------ *)
(* State                                                              *)
(* ------------------------------------------------------------------ *)
AllStations == {"base", "rover"}

VARIABLES
    stations,   \* cfg.Stations: the stations main starts a worker for
    menu,       \* environment: which byte streams the peers may deliver
    pc,         \* per station: where its monitorStation goroutine stands
    connOpen,   \* per station: conn is dialled and not yet closed
    stream,     \* per station: the bytes of the current connection
    pos,        \* per station: how many of them the reader has consumed
    headerBuf,  \* per station: handleStream's headerBuf
    length,     \* per station: handleStream's length
    baseID,     \* per station: handleStream's baseID
    sink,       \* the gauges: sink[station][metric]
    hdrs,       \* history: the headers read since the latest dial
    decoded,    \* history: the parseBlock calls since the latest dial
    sinkLog,    \* history: the Set calls those made, in call order
    obs         \* history: failed dials and delay while no dial succeeded

progVars == <<stations, menu, pc, connOpen, stream, pos, headerBuf, length, baseID, sink>>
histVars == <<hdrs, decoded, sinkLog, obs>>
vars == <<stations, menu, pc, connOpen, stream, pos, headerBuf, length, baseID, sink,
          hdrs, decoded, sinkLog, obs>>

\* make([]byte, 8)
ZeroHeader == [i \in 1..HeaderLen |-> 0]

Scanning == {"sync1", "sync2", "header", "payload"}

\* the state of every worker when main starts it
Started ==
    /\ pc = [s \in AllStations |-> "loop"]
    /\ connOpen = [s \in AllStations |-> FALSE]
    /\ stream = [s \in AllStations |-> <<>>]
    /\ pos = [s \in AllStations |-> 0]
    /\ headerBuf = [s \in AllStations |-> ZeroHeader]
    /\ length = [s \in AllStations |-> 0]
    /\ baseID = [s \in AllStations |-> 0]
    /\ sink = [s \in AllStations |-> [m \in Metrics |-> Unset]]
    /\ hdrs = [s \in AllStations |-> <<>>]
    /\ decoded = [s \in AllStations |-> <<>>]
    /\ sinkLog = [s \in AllStations |-> <<>>]
    /\ obs = [s \in AllStations |-> [on |-> TRUE, fails |-> 0, delay |-> 0]]

\* the byte streams a dialled peer may deliver
MenuStreams ==
    CASE menu.kind = "all" -> Streams
      [] menu.kind = "one" -> {menu.bytes}
      [] menu.kind = "few" -> FewStreams

\* one station, any stream of Streams on each connection
Init ==
    /\ stations = {"base"}
    /\ menu = [kind |-> "all", bytes |-> <<>>]
    /\ Started

\* one station whose peer delivers, on every connection, one decoder input
\* followed by a MeasEpoch block
InitDecode ==
    /\ stations = {"base"}
    /\ \E block \in TestBlocks : menu = [kind |-> "one", bytes |-> block \o FrameB]
    /\ Started

\* for _, s := range config.Stations { go monitorStation(s) } with two
\* stations of distinct names
InitMulti ==
    /\ stations = AllStations
    /\ menu = [kind |-> "few", bytes |-> <<>>]
    /\ Started

(* ------------------------------------------------------------------ *)
(* monitorStation                                                     *)
(* ------------------------------------------------------------------ *)
\* a connectivity gauge without the station label: one series for all
SetConnected_Shared(s, v) ==
    [t \in AllStations |-> [sink[t] EXCEPT !["receiverConnected"] = Num(v)]]

\* receiverConnected.WithLabelValues(s.Name).Set(v)
SetConnected(s, v) == [sink EXCEPT ![s]["receiverConnected"] = Num(v)]

\* a loop that does not reset the gauge before dialling
StartAttempt_NoSet0(s) ==
    /\ pc[s] = "loop"
    /\ pc' = [pc EXCEPT ![s] = "attempt"]
    /\ obs' = [obs EXCEPT ![s] =
                 IF obs[s].on /\ obs[s].fails >= MaxFails
                 THEN [on |-> FALSE, fails |-> 0, delay |-> 0]
                 ELSE @]
    /\ UNCHANGED <<stations, menu, connOpen, stream, pos, headerBuf, length, baseID,
                   sink, hdrs, decoded, sinkLog>>

\* a loop that drops every series of the station before dialling
StartAttempt_ClearAll(s) ==
    /\ pc[s] = "loop"
    /\ sink' = [sink EXCEPT ![s] =
                  [m \in Metrics |-> IF m = "receiverConnected" THEN Num(0) ELSE Unset]]
    /\ pc' = [pc EXCEPT ![s] = "attempt"]
    /\ obs' = [obs EXCEPT ![s] =
                 IF obs[s].on /\ obs[s].fails >= MaxFails
                 THEN [on |-> FALSE, fails |-> 0, delay |-> 0]
                 ELSE @]
    /\ UNCHANGED <<stations, menu, connOpen, stream, pos, headerBuf, length, baseID,
                   hdrs, decoded, sinkLog>>

\* top of the loop: receiverConnected...Set(0)
StartAttempt(s) ==
    /\ pc[s] = "loop"
    /\ sink' = SetConnected(s, 0)
    /\ pc' = [pc EXCEPT ![s] = "attempt"]
    /\ obs' = [obs EXCEPT ![s] =
                 IF obs[s].on /\ obs[s].fails >= MaxFails
                 THEN [on |-> FALSE, fails |-> 0, delay |-> 0]
                 ELSE @]
    /\ UNCHANGED <<stations, menu, connOpen, stream, pos, headerBuf, length, baseID,
                   hdrs, decoded, sinkLog>>

\* net.DialTimeout("tcp", address, 5*time.Second) is called; the history of
\* the previous connection ends here
Dial(s) ==
    /\ pc[s] = "attempt"
    /\ pc' = [pc EXCEPT ![s] = "dial"]
    /\ hdrs' = [hdrs EXCEPT ![s] = <<>>]
    /\ decoded' = [decoded EXCEPT ![s] = <<>>]
    /\ sinkLog' = [sinkLog EXCEPT ![s] = <<>>]
    /\ UNCHANGED <<stations, menu, connOpen, stream, pos, headerBuf, length, baseID,
                   sink, obs>>

\* net.DialTimeout returns an error: log, then time.Sleep(10s) is entered
DialFail(s) ==
    /\ pc[s] = "dial"
    /\ pc' = [pc EXCEPT ![s] = "retryWait"]
    /\ obs' = [obs EXCEPT ![s].fails = IF obs[s].on THEN @ + 1 ELSE @]
    /\ UNCHANGED <<stations, menu, connOpen, stream, pos, headerBuf, length, baseID,
                   sink, hdrs, decoded, sinkLog>>

\* a retry that waits only the reconnect delay
RetrySleep_Short(s) ==
    /\ pc[s] = "retryWait"
    /\ pc' = [pc EXCEPT ![s] = "loop"]
    /\ obs' = [obs EXCEPT ![s].delay = IF obs[s].on THEN @ + ReconnectDelay ELSE @]
    /\ UNCHANGED <<stations, menu, connOpen, stream, pos, headerBuf, length, baseID,
                   sink, hdrs, decoded, sinkLog>>

\* a retry loop that gives up after the second failed dial
RetrySleep_GiveUp(s) ==
    /\ pc[s] = "retryWait"
    /\ pc' = [pc EXCEPT ![s] =
                IF obs[s].on /\ obs[s].fails >= 2 THEN "stopped" ELSE "loop"]
    /\ obs' = [obs EXCEPT ![s].delay = IF obs[s].on THEN @ + RetryDelay ELSE @]
    /\ UNCHANGED <<stations, menu, connOpen, stream, pos, headerBuf, length, baseID,
                   sink, hdrs, decoded, sinkLog>>

\* time.Sleep(10 * time.Second) elapses; continue
RetrySleep(s) ==
    /\ pc[s] = "retryWait"
    /\ pc' = [pc EXCEPT ![s] = "loop"]
    /\ obs' = [obs EXCEPT ![s].delay = IF obs[s].on THEN @ + RetryDelay ELSE @]
    /\ UNCHANGED <<stations, menu, connOpen, stream, pos, headerBuf, length, baseID,
                   sink, hdrs, decoded, sinkLog>>

\* net.DialTimeout returns a connection: Set(1), handleStream is entered
\* (bufio.NewReader, make([]byte, 8))
DialOk(s) ==
    /\ pc[s] = "dial"
    /\ \E bytes \in MenuStreams : stream' = [stream EXCEPT ![s] = bytes]
    /\ pos' = [pos EXCEPT ![s] = 0]
    /\ connOpen' = [connOpen EXCEPT ![s] = TRUE]
    /\ sink' = SetConnected(s, 1)
    /\ headerBuf' = [headerBuf EXCEPT ![s] = ZeroHeader]
    /\ pc' = [pc EXCEPT ![s] = "sync1"]
    /\ obs' = [obs EXCEPT ![s] = [on |-> FALSE, fails |-> 0, delay |-> 0]]
    /\ UNCHANGED <<stations, menu, length, baseID, hdrs, decoded, sinkLog>>

\* handleStream has returned: conn.Close(), log, time.Sleep(5s) is entered
CloseConn(s) ==
    /\ pc[s] = "close"
    /\ connOpen' = [connOpen EXCEPT ![s] = FALSE]
    /\ stream' = [stream EXCEPT ![s] = <<>>]
    /\ pos' = [pos EXCEPT ![s] = 0]
    /\ pc' = [pc EXCEPT ![s] = "reconnectWait"]
    /\ UNCHANGED <<stations, menu, headerBuf, length, baseID, sink, histVars>>

\* time.Sleep(5 * time.Second) elapses; next iteration
ReconnectSleep(s) ==
    /\ pc[s] = "reconnectWait"
    /\ pc' = [pc EXCEPT ![s] = "loop"]
    /\ UNCHANGED <<stations, menu, connOpen, stream, pos, headerBuf, length, baseID,
                   sink, histVars>>

(* ------------------------------------------------------------------ *)
(* handleStream                                                       *)
(* ------------------------------------------------------------------ *)
\* bytes the reader can still deliver
Remaining(s) == Len(stream[s]) - pos[s]

\* `return` from handleStream after a failed read that consumed n bytes
Return(s, n) ==
    /\ pos' = [pos EXCEPT ![s] = @ + n]
    /\ pc' = [pc EXCEPT ![s] = "close"]
    /\ headerBuf' = [headerBuf EXCEPT ![s] = ZeroHeader]
    /\ length' = [length EXCEPT ![s] = 0]
    /\ baseID' = [baseID EXCEPT ![s] = 0]

\* b, err := reader.ReadByte(); if b != SyncChar1 { continue }
ReadSync1(s) ==
    /\ pc[s] = "sync1"
    /\ IF Remaining(s) < 1
       THEN Return(s, 0)
       ELSE /\ pos' = [pos EXCEPT ![s] = @ + 1]
            /\ pc' = [pc EXCEPT ![s] =
                        IF stream[s][pos[s] + 1] # SyncChar1 THEN "sync1" ELSE "sync2"]
            /\ UNCHANGED <<headerBuf, length, baseID>>
    /\ UNCHANGED <<stations, menu, connOpen, stream, sink, histVars>>

\* a second sync read that accepts any byte
ReadSync2_AnyByte(s) ==
    /\ pc[s] = "sync2"
    /\ IF Remaining(s) < 1
       THEN Return(s, 0)
       ELSE /\ pos' = [pos EXCEPT ![s] = @ + 1]
            /\ pc' = [pc EXCEPT ![s] = "header"]
            /\ UNCHANGED <<headerBuf, length, baseID>>
    /\ UNCHANGED <<stations, menu, connOpen, stream, sink, histVars>>

\* a second sync read that takes a failed byte equal to SyncChar1 as the
\* first marker byte of the next candidate
ReadSync2_Recheck(s) ==
    /\ pc[s] = "sync2"
    /\ IF Remaining(s) < 1
       THEN Return(s, 0)
       ELSE /\ pos' = [pos EXCEPT ![s] = @ + 1]
            /\ pc' = [pc EXCEPT ![s] =
                        CASE stream[s][pos[s] + 1] = SyncChar2 -> "header"
                          [] stream[s][pos[s] + 1] = SyncChar1 -> "sync2"
                          [] OTHER -> "sync1"]
            /\ UNCHANGED <<headerBuf, length, baseID>>
    /\ UNCHANGED <<stations, menu, connOpen, stream, sink, histVars>>

\* b, err = reader.ReadByte(); if b != SyncChar2 { continue }
ReadSync2(s) ==
    /\ pc[s] = "sync2"
    /\ IF Remaining(s) < 1
       THEN Return(s, 0)
       ELSE /\ pos' = [pos EXCEPT ![s] = @ + 1]
            /\ pc' = [pc EXCEPT ![s] =
                        IF stream[s][pos[s] + 1] # SyncChar2 THEN "sync1" ELSE "header"]
            /\ UNCHANGED <<headerBuf, length, baseID>>
    /\ UNCHANGED <<stations, menu, connOpen, stream, sink, histVars>>

\* a dispatch on the unmasked ID
BaseID_NoMask(idRaw) == idRaw

\* baseID := idRaw & 0x1FFF
BaseID(idRaw) == idRaw % (IDMask + 1)

\* a length check without its upper limit
ValidLength_NoUpper(len) == ~(len < HeaderLen)

\* the negation of `length < 8 || length > 8192`
ValidLength(len) == ~(len < HeaderLen \/ len > MaxFrameLen)

\* a payload length that subtracts only the 6 header bytes read after the sync
PayloadLen_SansSync(len) == len - (HeaderLen - 2)

\* payloadLen := int(length) - 8
PayloadLen(len) == len - HeaderLen

\* io.ReadFull(reader, headerBuf[2:]), the two Uint16 reads, the mask and
\* the length check
ReadHeader(s) ==
    /\ pc[s] = "header"
    /\ IF Remaining(s) < HeaderLen - 2
       THEN /\ Return(s, Remaining(s))
            /\ UNCHANGED hdrs
       ELSE LET buf == SubSeq(headerBuf[s], 1, 2)
                         \o SubSeq(stream[s], pos[s] + 1, pos[s] + HeaderLen - 2)
                idRaw == LittleEndianUint16(buf[5], buf[6])
                len == LittleEndianUint16(buf[7], buf[8])
            IN  /\ pos' = [pos EXCEPT ![s] = @ + HeaderLen - 2]
                /\ headerBuf' = [headerBuf EXCEPT ![s] = buf]
                /\ length' = [length EXCEPT ![s] = len]
                /\ baseID' = [baseID EXCEPT ![s] = BaseID(idRaw)]
                /\ pc' = [pc EXCEPT ![s] =
                            IF ValidLength(len) THEN "payload" ELSE "sync1"]
                /\ hdrs' = [hdrs EXCEPT ![s] =
                            Append(@, [at |-> pos[s] - 2, ok |-> ValidLength(len)])]
    /\ UNCHANGED <<stations, menu, connOpen, stream, sink, decoded, sinkLog, obs>>

\* Set calls that overtake the calls of earlier blocks
Forward_Overtake(log, n, calls) ==
    [i \in 1..Len(calls) |-> [frame |-> n, call |-> calls[i]]] \o log

\* the Set calls of block number n, appended to the station's call history
Forward(log, n, calls) ==
    log \o [i \in 1..Len(calls) |-> [frame |-> n, call |-> calls[i]]]

\* a payload read that ignores the error and decodes what has arrived
ReadPayload_IgnoreErr(s) ==
    /\ pc[s] = "payload"
    /\ LET n == Min(Remaining(s), PayloadLen(length[s]))
           payload == SubSeq(stream[s], pos[s] + 1, pos[s] + n)
           calls == parseBlock(baseID[s], payload)
       IN  /\ pos' = [pos EXCEPT ![s] = @ + n]
           /\ sink' = [sink EXCEPT ![s] = ApplySets(@, calls)]
           /\ pc' = [pc EXCEPT ![s] = "sync1"]
           /\ decoded' = [decoded EXCEPT ![s] =
                            Append(@, [at |-> hdrs[s][Len(hdrs[s])].at,
                                       id |-> baseID[s],
                                       payload |-> payload,
                                       reads |-> ReadOffsets(baseID[s], Len(payload)),
                                       calls |-> calls])]
           /\ sinkLog' = [sinkLog EXCEPT ![s] =
                            Forward(@, Len(decoded[s]) + 1, calls)]
           /\ UNCHANGED <<headerBuf, length, baseID>>
    /\ UNCHANGED <<stations, menu, connOpen, stream, hdrs, obs>>

\* a payload read that decodes the payload without consuming it
ReadPayload_Peek(s) ==
    /\ pc[s] = "payload"
    /\ IF Remaining(s) < PayloadLen(length[s])
       THEN /\ Return(s, Remaining(s))
            /\ UNCHANGED <<sink, decoded, sinkLog>>
       ELSE LET payload == SubSeq(stream[s], pos[s] + 1, pos[s] + PayloadLen(length[s]))
                calls == parseBlock(baseID[s], payload)
            IN  /\ sink' = [sink EXCEPT ![s] = ApplySets(@, calls)]
                /\ pc' = [pc EXCEPT ![s] = "sync1"]
                /\ decoded' = [decoded EXCEPT ![s] =
                                 Append(@, [at |-> hdrs[s][Len(hdrs[s])].at,
                                            id |-> baseID[s],
                                            payload |-> payload,
                                            reads |-> ReadOffsets(baseID[s], Len(payload)),
                                            calls |-> calls])]
                /\ sinkLog' = [sinkLog EXCEPT ![s] =
                                 Forward(@, Len(decoded[s]) + 1, calls)]
                /\ UNCHANGED <<pos, headerBuf, length, baseID>>
    /\ UNCHANGED <<stations, menu, connOpen, stream, hdrs, obs>>

\* io.ReadFull(reader, payload); parseBlock(stationName, baseID, payload, log)
ReadPayload(s) ==
    /\ pc[s] = "payload"
    /\ IF Remaining(s) < PayloadLen(length[s])
       THEN /\ Return(s, Remaining(s))
            /\ UNCHANGED <<sink, decoded, sinkLog>>
       ELSE LET payload == SubSeq(stream[s], pos[s] + 1, pos[s] + PayloadLen(length[s]))
                calls == parseBlock(baseID[s], payload)
            IN  /\ pos' = [pos EXCEPT ![s] = @ + PayloadLen(length[s])]
                /\ sink' = [sink EXCEPT ![s] = ApplySets(@, calls)]
                /\ pc' = [pc EXCEPT ![s] = "sync1"]
                /\ decoded' = [decoded EXCEPT ![s] =
                                 Append(@, [at |-> hdrs[s][Len(hdrs[s])].at,
                                            id |-> baseID[s],
                                            payload |-> payload,
                                            reads |-> ReadOffsets(baseID[s], Len(payload)),
                                            calls |-> calls])]
                /\ sinkLog' = [sinkLog EXCEPT ![s] =
                                 Forward(@, Len(decoded[s]) + 1, calls)]
                /\ UNCHANGED <<headerBuf, length, baseID>>
    /\ UNCHANGED <<stations, menu, connOpen, stream, hdrs, obs>>

(* ------------------------------------------------------------------ *)
(* The system: main starts one worker per configured station          *)
(* ------------------------------------------------------------------ *)
\* one step of the worker of station s
Step(s) ==
    \/ StartAttempt(s) \/ Dial(s) \/ DialFail(s) \/ RetrySleep(s) \/ DialOk(s)
    \/ CloseConn(s) \/ ReconnectSleep(s)
    \/ ReadSync1(s) \/ ReadSync2(s) \/ ReadHeader(s) \/ ReadPayload(s)

monitorStation ==
    \/ \E s \in stations : StartAttempt(s)
    \/ \E s \in stations : Dial(s)
    \/ \E s \in stations : DialFail(s)
    \/ \E s \in stations : RetrySleep(s)
    \/ \E s \in stations : DialOk(s)
    \/ \E s \in stations : CloseConn(s)
    \/ \E s \in stations : ReconnectSleep(s)

handleStream ==
    \/ \E s \in stations : ReadSync1(s)
    \/ \E s \in stations : ReadSync2(s)
    \/ \E s \in stations : ReadHeader(s)
    \/ \E s \in stations : ReadPayload(s)

Next == monitorStation \/ handleStream

Spec == Init /\ [][Next]_vars

\* The worker goroutine is scheduled, time.Sleep and conn.Close return, and
\* net.DialTimeout returns within its 5 s timeout.  Reads are given no
\* fairness: a read blocks for as long as the peer stays silent.
Fairness ==
    \A s \in AllStations :
        /\ WF_vars(s \in stations /\ StartAttempt(s))
        /\ WF_vars(s \in stations /\ Dial(s))
        /\ WF_vars(s \in stations /\ (DialFail(s) \/ DialOk(s)))
        /\ WF_vars(s \in stations /\ RetrySleep(s))
        /\ WF_vars(s \in stations /\ CloseConn(s))
        /\ WF_vars(s \in stations /\ ReconnectSleep(s))

LiveSpec == Init /\ [][Next]_vars /\ Fairness

DecodeSpec == InitDecode /\ [][Next]_vars

MultiSpec == InitMulti /\ [][Next]_vars

(* ------------------------------------------------------------------ *)
(* What the wire holds, read off the connection's bytes                *)
(* ------------------------------------------------------------------ *)
\* the header fields of the block whose first sync byte is at offset `at`
WireCRC(s, at) == LittleEndianUint16(stream[s][at + 3], stream[s][at + 4])
WireID(s, at) == LittleEndianUint16(stream[s][at + 5], stream[s][at + 6])
WireLen(s, at) == LittleEndianUint16(stream[s][at + 7], stream[s][at + 8])

InRange(len) == HeaderLen <= len /\ len <= MaxFrameLen

\* the sync marker stands at offset `at`
MarkerAt(s, at) ==
    /\ at >= 0
    /\ at + 2 <= Len(stream[s])
    /\ stream[s][at + 1] = SyncChar1
    /\ stream[s][at + 2] = SyncChar2

NoMarker(bytes) ==
    \A i \in 1..(Len(bytes) - 1) : ~(bytes[i] = SyncChar1 /\ bytes[i + 1] = SyncChar2)

\* station s takes a step
Moved(s) == pc'[s] # pc[s] \/ pos'[s] # pos[s]

\* nothing is decoded or forwarded for station s in this step
NothingForwarded(s) ==
    /\ decoded'[s] = decoded[s]
    /\ sinkLog'[s] = sinkLog[s]
    /\ sink'[s] = sink[s]

(* ------------------------------------------------------------------ *)
(* Claims                                                             *)
(* ------------------------------------------------------------------ *)

\* C1: every block handed to the decoder has a declared length L with
\* 8 <= L <= 8192, and its payload is exactly the L - 8 bytes that follow
\* its 8-byte header on the wire.
C1_PayloadIsLengthMinus8 ==
    \A s \in stations : connOpen[s] =>
        \A i \in 1..Len(decoded[s]) :
            LET d == decoded[s][i]
                L == WireLen(s, d.at)
            IN  /\ MarkerAt(s, d.at)
                /\ InRange(L)
                /\ Len(d.payload) = L - 8
                /\ d.payload = SubSeq(stream[s], d.at + 9, d.at + L)

\* C1 witness: one connection delivered a block of length 8192 (8184 payload
\* bytes) and a block of length 8 (empty payload).
C1_Witness ==
    \E s \in stations :
        /\ connOpen[s]
        /\ \E i, j \in 1..Len(decoded[s]) :
              /\ WireLen(s, decoded[s][i].at) = 8192
              /\ Len(decoded[s][i].payload) = 8184
              /\ WireLen(s, decoded[s][j].at) = 8
              /\ decoded[s][j].payload = <<>>

\* C2: a header whose declared length is below 8 or above 8192 is dropped:
\* the step that reads it decodes and forwards nothing, consumes the 6
\* header bytes and no payload byte, and leaves the scanner searching for
\* the marker on the open connection.
C2_BadLengthDropped ==
    [][\A s \in stations :
          ( /\ pc[s] = "header"
            /\ Remaining(s) >= 6
            /\ ~InRange(LittleEndianUint16(stream[s][pos[s] + 5], stream[s][pos[s] + 6]))
            /\ Moved(s) )
          => /\ pc'[s] = "sync1"
             /\ pos'[s] = pos[s] + 6
             /\ connOpen'[s]
             /\ NothingForwarded(s)]_vars

\* C2 witness: the scanner stands right behind the second of two dropped
\* headers, one with a length below 8 and one with a length above 8192.
C2_Witness ==
    \E s \in stations :
        /\ connOpen[s] /\ pc[s] = "sync1"
        /\ Len(hdrs[s]) = 2 /\ decoded[s] = <<>>
        /\ pos[s] = hdrs[s][2].at + 8
        /\ \E i, j \in 1..2 :
              /\ WireLen(s, hdrs[s][i].at) < 8
              /\ WireLen(s, hdrs[s][j].at) > 8192

\* C3: on a stream without the marker the scanner reads no header, decodes
\* and forwards nothing, consumes one byte per step and returns at the
\* step that finds the stream exhausted.
C3_NoMarkerNoFrame ==
    /\ [](\A s \in stations : (connOpen[s] /\ NoMarker(stream[s])) =>
            /\ pc[s] \in {"sync1", "sync2", "close"}
            /\ hdrs[s] = <<>> /\ decoded[s] = <<>> /\ sinkLog[s] = <<>>)
    /\ [][\A s \in stations :
            (connOpen[s] /\ NoMarker(stream[s]) /\ pc[s] \in Scanning /\ Moved(s))
            => /\ NothingForwarded(s)
               /\ IF pos[s] = Len(stream[s])
                  THEN pc'[s] = "close"
                  ELSE pos'[s] = pos[s] + 1 /\ pc'[s] \in {"sync1", "sync2"}]_vars

\* C3 witness: the scanner has returned after consuming a stream that holds
\* both marker bytes, but never one after the other.
C3_Witness ==
    \E s \in stations :
        /\ connOpen[s] /\ pc[s] = "close"
        /\ NoMarker(stream[s])
        /\ pos[s] = Len(stream[s])
        /\ \E i, j \in 1..Len(stream[s]) :
              stream[s][i] = SyncChar1 /\ stream[s][j] = SyncChar2
        /\ decoded[s] = <<>>

\* C4: a header read that finds fewer than 6 bytes left, and a payload read
\* that finds fewer than (length - 8) bytes left, decode and forward
\* nothing and end the scan of this connection.
C4_ShortReadEndsScan ==
    [][\A s \in stations :
          ( /\ Moved(s)
            /\ \/ pc[s] = "header" /\ Remaining(s) < 6
               \/ /\ pc[s] = "payload"
                  /\ Remaining(s) < WireLen(s, pos[s] - 8) - 8 )
          => /\ pc'[s] = "close"
             /\ NothingForwarded(s)]_vars

\* C4 witness: the scanner has returned with the last header accepted and
\* only part of its payload on the wire, after one earlier block was decoded.
C4_Witness ==
    \E s \in stations :
        /\ connOpen[s] /\ pc[s] = "close"
        /\ Len(hdrs[s]) = 2 /\ hdrs[s][2].ok
        /\ Len(decoded[s]) = 1
        /\ Len(stream[s]) > hdrs[s][2].at + 8
        /\ Len(stream[s]) < hdrs[s][2].at + WireLen(s, hdrs[s][2].at)

\* the Set calls a sequence of decoded blocks makes when each block's calls
\* are made, in program order, before the next block is decoded
RECURSIVE ExpectedLog(_)
ExpectedLog(ds) ==
    IF ds = <<>> THEN <<>>
    ELSE LET n == Len(ds)
         IN  ExpectedLog(SubSeq(ds, 1, n - 1))
               \o [i \in 1..Len(ds[n].calls) |-> [frame |-> n, call |-> ds[n].calls[i]]]

\* C5: the blocks handed to the decoder lie on the wire one after the other
\* in the order they were decoded (none twice, none overlapping), the Set
\* calls reach the gauges block by block in that order, and each gauge holds
\* the value of the latest call made for it.
C5_WireOrder ==
    \A s \in stations : connOpen[s] =>
        /\ \A i \in 1..Len(decoded[s]) :
              /\ MarkerAt(s, decoded[s][i].at)
              /\ \E k \in 1..Len(hdrs[s]) : hdrs[s][k].at = decoded[s][i].at
        /\ \A i \in 1..(Len(decoded[s]) - 1) :
              decoded[s][i].at + WireLen(s, decoded[s][i].at) <= decoded[s][i + 1].at
        /\ sinkLog[s] = ExpectedLog(decoded[s])
        /\ \A k \in 1..Len(sinkLog[s]) :
              (\A l \in (k + 1)..Len(sinkLog[s]) :
                    sinkLog[s][l].call.metric # sinkLog[s][k].call.metric)
              => sink[s][sinkLog[s][k].call.metric] = sinkLog[s][k].call.value

\* C5 witness: two blocks with different samples were decoded on one
\* connection and the gauge holds the value of the second.
C5_Witness ==
    \E s \in stations :
        /\ connOpen[s]
        /\ Len(decoded[s]) = 2 /\ Len(sinkLog[s]) = 2
        /\ sinkLog[s][1].call.value = Num(5)
        /\ sinkLog[s][2].call.value = Num(9)
        /\ sink[s]["satellitesTracked"] = Num(9)

\* C6: the decoder is given the wire ID masked to its low 13 bits; two
\* decoded blocks that agree in those 13 bits, in length and in payload
\* produce the same Set calls whatever their CRC bytes and top 3 ID bits
\* are; and every header read with a length in 8..8192 whose payload is
\* complete is decoded, whatever its CRC and ID.
C6_OnlyLow13BitsLengthPayload ==
    \A s \in stations : connOpen[s] =>
        /\ \A i \in 1..Len(decoded[s]) :
              decoded[s][i].id = WireID(s, decoded[s][i].at) % 8192
        /\ \A i, j \in 1..Len(decoded[s]) :
              ( /\ WireID(s, decoded[s][i].at) % 8192 = WireID(s, decoded[s][j].at) % 8192
                /\ WireLen(s, decoded[s][i].at) = WireLen(s, decoded[s][j].at)
                /\ decoded[s][i].payload = decoded[s][j].payload )
              => decoded[s][i].calls = decoded[s][j].calls
        /\ \A k \in 1..Len(hdrs[s]) :
              ( /\ InRange(WireLen(s, hdrs[s][k].at))
                /\ hdrs[s][k].at + WireLen(s, hdrs[s][k].at) <= Len(stream[s])
                /\ (k < Len(hdrs[s]) \/ pc[s] # "payload") )
              => \E i \in 1..Len(decoded[s]) : decoded[s][i].at = hdrs[s][k].at

\* C6 witness: two decoded blocks differ in their CRC bytes and in the top
\* 3 bits of their ID and made the same, non-empty, Set calls.
C6_Witness ==
    \E s \in stations :
        /\ connOpen[s]
        /\ \E i, j \in 1..Len(decoded[s]) :
              /\ WireCRC(s, decoded[s][i].at) # WireCRC(s, decoded[s][j].at)
              /\ WireID(s, decoded[s][i].at) \div 8192 # WireID(s, decoded[s][j].at) \div 8192
              /\ decoded[s][i].calls = decoded[s][j].calls
              /\ decoded[s][i].calls # <<>>

\* C7: the connectivity gauge reads 1 only while the worker holds an open
\* connection.
C7_ConnectedOnlyWhileOpen ==
    \A s \in stations : sink[s]["receiverConnected"] = Num(1) => connOpen[s]

\* the headers read on s's connection that are whole blocks on the wire
WholeBlocks(s) ==
    { k \in 1..Len(hdrs[s]) :
        /\ InRange(WireLen(s, hdrs[s][k].at))
        /\ hdrs[s][k].at + WireLen(s, hdrs[s][k].at) <= Len(stream[s]) }

\* C8: when handleStream has returned, the decoder has been called once per
\* whole block scanned and its Set calls have all been made; the worker
\* then closes the connection, sleeps and sets the connectivity gauge to 0,
\* and outside the scan nothing is decoded and no decoded gauge changes.
C8_ForwardedThenDisconnected ==
    /\ [](\A s \in stations : pc[s] = "close" =>
            /\ connOpen[s]
            /\ Len(decoded[s]) = Cardinality(WholeBlocks(s))
            /\ sinkLog[s] = ExpectedLog(decoded[s]))
    /\ [][\A s \in stations : (Moved(s) /\ pc[s] \notin Scanning) =>
            /\ \A m \in Metrics \ {"receiverConnected"} : sink'[s][m] = sink[s][m]
            /\ pc[s] # "attempt" => decoded'[s] = decoded[s] /\ sinkLog'[s] = sinkLog[s]
            /\ pc[s] = "close" =>
                  /\ pc'[s] = "reconnectWait" /\ ~connOpen'[s]
                  /\ sink'[s] = sink[s]
            /\ pc[s] = "reconnectWait" => pc'[s] = "loop" /\ sink'[s] = sink[s]
            /\ pc[s] = "loop" =>
                  /\ pc'[s] = "attempt"
                  /\ sink'[s]["receiverConnected"] = Num(0)]_vars

\* C8 witness: after a connection on which two blocks were decoded, the
\* worker is about to dial again with the connectivity gauge at 0.
C8_Witness ==
    \E s \in stations :
        /\ pc[s] = "attempt" /\ ~connOpen[s]
        /\ Len(decoded[s]) = 2
        /\ sink[s]["receiverConnected"] = Num(0)

\* C9: while no dial has succeeded, the worker is never connected, the
\* connectivity gauge never reads 1, and at each new attempt the delay spent
\* is 10 units per failed attempt.
C9_FailuresCostTenEach ==
    \A s \in stations : obs[s].on =>
        /\ pc[s] \in {"loop", "attempt", "dial", "retryWait"}
        /\ ~connOpen[s]
        /\ sink[s]["receiverConnected"] # Num(1)
        /\ pc[s] \in {"loop", "attempt", "dial"} => obs[s].delay = 10 * obs[s].fails
        /\ pc[s] = "retryWait" => obs[s].delay = 10 * (obs[s].fails - 1)

\* C9 witness: three dials have failed, none has succeeded, and the worker
\* is back at the top of its loop after 30 units of delay.
C9_Witness ==
    \E s \in stations :
        /\ obs[s].on /\ obs[s].fails = 3 /\ obs[s].delay = 30
        /\ pc[s] = "loop"
        /\ sink[s]["receiverConnected"] = Num(0)

\* C10: after every failed dial and after every return of handleStream the
\* worker dials again.
C10_AlwaysRetries ==
    \A s \in AllStations :
        (s \in stations /\ pc[s] \in {"retryWait", "close", "reconnectWait"})
            ~> (pc[s] = "dial")

\* C10 witness: the worker dials once more after two failed dials in a row.
C10_Witness ==
    \E s \in stations : pc[s] = "dial" /\ obs[s].on /\ obs[s].fails = 2

(* ------------------------------------------------------------------ *)
(* Decoder claims, checked on DecodeSpec                               *)
(* ------------------------------------------------------------------ *)
\* every block decoded so far on any station
DecodedBlocks == UNION { {decoded[s][i] : i \in 1..Len(decoded[s])} : s \in stations }

\* the metrics of a sequence of Set calls
MetricsOf(calls) == {calls[i].metric : i \in 1..Len(calls)}

\* the record layouts of the decoder table: each field's metric and the
\* first and last payload offset it occupies
FieldRanges(id) ==
    CASE id = 4007 -> {[metric |-> "satellitesUsed", first |-> 66, last |-> 66]}
      [] id = 4027 -> {[metric |-> "satellitesTracked", first |-> 6, last |-> 6]}
      [] id = 4092 -> {[metric |-> "jammingStatus", first |-> 8, last |-> 8]}
      [] id = 4014 -> {[metric |-> "cpuLoad", first |-> 6, last |-> 6],
                       [metric |-> "uptime", first |-> 7, last |-> 10],
                       [metric |-> "temperature", first |-> 15, last |-> 15]}
      [] id = 4082 -> {[metric |-> "qualityOverall", first |-> 6, last |-> 6],
                       [metric |-> "qualitySignal", first |-> 7, last |-> 7],
                       [metric |-> "qualityRF", first |-> 8, last |-> 8]}
      [] id = 4059 -> {[metric |-> "diskFree", first |-> 9, last |-> 16]}
      [] OTHER -> {}

\* the payload length below which a record type yields no sample
MinPayload(id) ==
    CASE id = 4007 -> 67
      [] id = 4027 -> 7
      [] id = 4092 -> 9
      [] id = 4014 -> 16
      [] id = 4082 -> 9
      [] id = 4059 -> 20
      [] OTHER -> 0

\* C12 as stated: for every record type and payload length the decoder
\* emits exactly the samples of the fields whose byte range lies entirely
\* inside the payload (each field guarded on its own).
C12_FieldwiseGuards ==
    \A d \in DecodedBlocks :
        MetricsOf(d.calls) =
            {f.metric : f \in {g \in FieldRanges(d.id) : g.last < Len(d.payload)}}

\* C12, amended: each record type has one guard on the payload length
\* (67, 7, 9, 16, 9 and 20 bytes for types 4007, 4027, 4092, 4014, 4082 and
\* 4059).  A payload shorter than that yields no sample of the record, also
\* for fields whose bytes are present; a payload at least that long yields
\* one sample for every field of the record.
C12_RecordGuards ==
    \A d \in DecodedBlocks :
        IF Len(d.payload) >= MinPayload(d.id)
        THEN /\ MetricsOf(d.calls) = {f.metric : f \in FieldRanges(d.id)}
             /\ Len(d.calls) = Cardinality(FieldRanges(d.id))
        ELSE d.calls = <<>>

\* C12 witness: a receiver-status payload of 15 bytes, which holds the CPU
\* load and uptime bytes but not the temperature byte, was decoded to no
\* sample at all.
C12_Witness ==
    \E d \in DecodedBlocks :
        /\ d.id = BlockID_ReceiverStatus
        /\ Len(d.payload) = 15
        /\ d.calls = <<>>

\* C13: for every disk-status payload of at least 20 bytes the forwarded
\* free-space sample is (capacity - used) MiB, capacity and used being the
\* unsigned 32-bit little-endian values at offsets 9 and 13: used plus the
\* forwarded free space equals capacity exactly, in 16-bit limbs.
C13_FreeIsCapacityMinusUsed ==
    \A d \in DecodedBlocks :
        (d.id = BlockID_DiskStatus /\ Len(d.payload) >= 20) =>
            LET capacity == LittleEndianUint32(d.payload, 9)
                used == LittleEndianUint32(d.payload, 13)
                free == d.calls[1].value
                lo == used.lo + free.lo
            IN  /\ Len(d.calls) = 1
                /\ d.calls[1].metric = "diskFree"
                /\ free.kind = "MiB"
                /\ lo % 65536 = capacity.lo
                /\ used.hi + free.hi + (lo \div 65536) = capacity.hi

C15_JammingFromLowBits ==
    \A d \in DecodedBlocks :
        (d.id = BlockID_RFStatus /\ Len(d.payload) > 8) =>
            LET flags == d.payload[9]
                expected == <<0, 1, 2, 2>>[(flags % 4) + 1]
            IN  /\ d.calls = <<[metric |-> "jammingStatus", value |-> Num(expected)]>>
                /\ d.calls[1].value.lo \in {0, 1, 2}

\* C15 witness: a flags byte with both low bits and all of bits 2..7 set
\* (255) was decoded to jamming state 2.
C15_Witness ==
    \E s \in stations :
        /\ \E i \in 1..Len(decoded[s]) :
              /\ decoded[s][i].id = BlockID_RFStatus
              /\ Len(decoded[s][i].payload) = 9
              /\ decoded[s][i].payload[9] = 255
        /\ sink[s]["jammingStatus"] = Num(2)

\* C16: the step that decodes a block whose ID, taken modulo 8192, is none
\* of 4007, 4014, 4027, 4059, 4082, 4092 makes no Set call and leaves every
\* gauge as it was; the connection stays open and the scanner goes on to
\* search for the next marker right after the block.
C16_UnknownIDNoEffect ==
    [][\A s \in stations :
          ( /\ pc[s] = "payload"
            /\ Len(decoded'[s]) = Len(decoded[s]) + 1
            /\ (WireID(s, pos[s] - 8) % 8192)
                  \notin {4007, 4014, 4027, 4059, 4082, 4092} )
          => /\ decoded'[s][Len(decoded'[s])].calls = <<>>
             /\ sink' = sink
             /\ sinkLog' = sinkLog
             /\ connOpen'[s] /\ stream'[s] = stream[s]
             /\ pc'[s] = "sync1"
             /\ pos'[s] = pos[s] + WireLen(s, pos[s] - 8) - 8]_vars

\* C16 witness: a block with an unknown ID and a payload of 20 bytes was
\* decoded to nothing, and the block after it was decoded on the same
\* connection.
C16_Witness ==
    \E s \in stations :
        /\ connOpen[s]
        /\ Len(decoded[s]) = 2
        /\ decoded[s][1].id \notin KnownIDs
        /\ Len(decoded[s][1].payload) = 20
        /\ decoded[s][1].calls = <<>>
        /\ decoded[s][2].calls # <<>>
        /\ sink[s]["satellitesTracked"] = Num(9)
        /\ \A m \in Metrics \ {"satellitesTracked", "receiverConnected"} :
              sink[s][m] = Unset

\* C18: whatever the record type and the payload length, every payload
\* offset the decoder reads (66; 6; 8; 6, 7..10, 15; 6, 7, 8; 9..12,
\* 13..16) is below the payload length, and a block is decoded to samples
\* exactly when the decoder reads from it.
C18_ReadsInsidePayload ==
    \A d \in DecodedBlocks :
        /\ \A i \in d.reads : 0 <= i /\ i < Len(d.payload)
        /\ (d.calls # <<>>) <=> (d.reads # {})
        /\ d.reads \subseteq UNION {f.first..f.last : f \in FieldRanges(d.id)}

\* C18 witness: a receiver-status payload of exactly 16 bytes was decoded,
\* its last byte (offset 15) being read.
C18_Witness ==
    \E d \in DecodedBlocks :
        /\ d.id = BlockID_ReceiverStatus
        /\ Len(d.payload) = 16
        /\ 15 \in d.reads
        /\ Len(d.calls) = 3

(* ------------------------------------------------------------------ *)
(* Scanner and supervisor claims, checked on Spec                      *)
(* ------------------------------------------------------------------ *)
\* C17: when the byte after a first marker byte is not '@', the scanner
\* consumes it and goes back to the search for '$' with the byte after it,
\* whatever the failed byte is; on a stream that starts '$' '$' '@' no
\* header is read and no block is decoded for the marker at the second '$'.
C17_FailedByteNotRetried ==
    /\ [][\A s \in stations :
            ( /\ pc[s] = "sync2"
              /\ Remaining(s) >= 1
              /\ stream[s][pos[s] + 1] # 64
              /\ Moved(s) )
            => /\ pc'[s] = "sync1"
               /\ pos'[s] = pos[s] + 1
               /\ hdrs'[s] = hdrs[s]
               /\ NothingForwarded(s)]_vars
    /\ [](\A s \in stations :
            ( /\ connOpen[s]
              /\ Len(stream[s]) >= 3
              /\ SubSeq(stream[s], 1, 3) = <<36, 36, 64>> )
            => /\ \A k \in 1..Len(hdrs[s]) : hdrs[s][k].at # 1
               /\ \A i \in 1..Len(decoded[s]) : decoded[s][i].at # 1)

\* C17 witness: the stream '$' followed by a whole well-formed block was
\* read to its end and the block was never decoded.
C17_Witness ==
    \E s \in stations :
        /\ connOpen[s]
        /\ stream[s] = <<36>> \o FrameA
        /\ pos[s] = Len(stream[s])
        /\ pc[s] = "close"
        /\ decoded[s] = <<>>
        /\ \A k \in 1..Len(hdrs[s]) : hdrs[s][k].at # 1

\* the wire offset one past the last byte of decoded block d of station s
EndOf(s, d) == d.at + WireLen(s, d.at)

\* C19: a step of the supervisor (top of the loop, dial, dial failure, the
\* two sleeps, close) and the return from the scan change no gauge of the
\* station but receiverConnected; a decoded gauge changes only in the step
\* that decodes a block with a sample for it.
C19_DecodedGaugesKept ==
    [][\A s \in stations : \A m \in Metrics \ {"receiverConnected"} :
          /\ (pc[s] \notin Scanning \/ pc'[s] \notin Scanning)
                => sink'[s][m] = sink[s][m]
          /\ sink'[s][m] # sink[s][m]
                => /\ pc[s] = "payload"
                   /\ Len(decoded'[s]) = Len(decoded[s]) + 1
                   /\ \E i \in 1..Len(decoded'[s][Len(decoded'[s])].calls) :
                         decoded'[s][Len(decoded'[s])].calls[i] =
                             [metric |-> m, value |-> sink'[s][m]]]_vars

\* C19 witness: after a disconnect the loop has set receiverConnected to 0
\* and dials again while satellitesTracked still holds the decoded 5.
C19_Witness ==
    \E s \in stations :
        /\ pc[s] = "dial"
        /\ ~connOpen[s]
        /\ sink[s]["receiverConnected"] = Num(0)
        /\ sink[s]["satellitesTracked"] = Num(5)

\* C20: once a block is decoded the search for the next marker starts at
\* the first byte after its payload; no byte between a decoded block's
\* marker and its end is examined as a marker byte, and no header is read
\* at a marker lying inside a decoded block.
C20_FrameBytesNotScanned ==
    /\ [][\A s \in stations :
            /\ Len(decoded'[s]) = Len(decoded[s]) + 1
                  => /\ pc'[s] = "sync1"
                     /\ pos'[s] = EndOf(s, decoded'[s][Len(decoded'[s])])
            /\ (pc[s] \in {"sync1", "sync2"} /\ pos'[s] # pos[s])
                  => \A i \in 1..Len(decoded[s]) : pos[s] >= EndOf(s, decoded[s][i])]_vars
    /\ [](\A s \in stations : connOpen[s] =>
            \A i \in 1..Len(decoded[s]) : \A k \in 1..Len(hdrs[s]) :
                ~(decoded[s][i].at < hdrs[s][k].at
                    /\ hdrs[s][k].at < EndOf(s, decoded[s][i])))

\* C20 witness: a block whose payload starts with '$' '@' was decoded, the
\* stream was read to its end, and the only header read is that block's.
C20_Witness ==
    \E s \in stations :
        /\ connOpen[s]
        /\ Len(decoded[s]) = 1 /\ Len(hdrs[s]) = 1
        /\ Len(decoded[s][1].payload) >= 2
        /\ SubSeq(decoded[s][1].payload, 1, 2) = <<36, 64>>
        /\ MarkerAt(s, decoded[s][1].at + 8)
        /\ pos[s] = Len(stream[s])
        /\ pc[s] = "close"

(* ------------------------------------------------------------------ *)
(* Station isolation, checked on MultiSpec                             *)
(* ------------------------------------------------------------------ *)
\* everything the worker of station s owns, its gauges included
Local(s) ==
    <<pc[s], connOpen[s], stream[s], pos[s], headerBuf[s], length[s], baseID[s],
      sink[s], hdrs[s], decoded[s], sinkLog[s], obs[s]>>

\* C11: with two stations, every step is the step of one worker and leaves
\* everything under the other station's label as it was; the calls made
\* under a station's label are those of the blocks of its own byte stream,
\* and each gauge they set holds the latest of them; whatever the other
\* worker is doing (failing to connect, reading a malformed stream), a
\* worker always has its next step enabled.
C11_StationsIsolated ==
    /\ [][\A s \in stations : \A t \in stations \ {s} :
            Moved(s) => Local(t)' = Local(t)]_vars
    /\ [](\A s \in stations :
            /\ ENABLED Step(s)
            /\ connOpen[s] =>
                 /\ \A i \in 1..Len(decoded[s]) :
                       /\ decoded[s][i].payload =
                             SubSeq(stream[s], decoded[s][i].at + 9,
                                    EndOf(s, decoded[s][i]))
                       /\ decoded[s][i].id = WireID(s, decoded[s][i].at) % 8192
                 /\ sinkLog[s] = ExpectedLog(decoded[s])
                 /\ \A k \in 1..Len(sinkLog[s]) :
                       (\A l \in (k + 1)..Len(sinkLog[s]) :
                             sinkLog[s][l].call.metric # sinkLog[s][k].call.metric)
                       => sink[s][sinkLog[s][k].call.metric] = sinkLog[s][k].call.value)

\* C11 witness: station base has failed to connect three times and never
\* connected, while station rover is connected and has decoded and
\* forwarded a block of its own stream.
C11_Witness ==
    /\ stations = {"base", "rover"}
    /\ obs["base"].on /\ obs["base"].fails = 3
    /\ sink["base"]["receiverConnected"] = Num(0)
    /\ sink["base"]["satellitesTracked"] = Unset
    /\ connOpen["rover"]
    /\ Len(decoded["rover"]) = 1
    /\ sink["rover"]["receiverConnected"] = Num(1)
    /\ sink["rover"]["satellitesTracked"] = Num(5)

====
